---- MODULE Spec2Model ----
(***************************************************************************)
(* Model of Streamlit_app.py: the Open-PO / Workbench price reconciliation *)
(* (convert_to_euro, process_data, generate_insights) and the part of      *)
(* main() that reads the two uploaded workbooks, runs the reconciliation   *)
(* and chooses what to render.                                             *)
(*                                                                         *)
(* Numbers.  Prices and quantities of the workbooks are integers.  The     *)
(* rates of CONVERSION_RATES are kept as integers in units of 1/10000      *)
(* (0.93 is 9300), so every Euro amount of the model is an integer number  *)
(* of 1/10000 Euro and the arithmetic is exact; floating-point rounding is *)
(* not modelled.  A value that pandas holds as None/NaN/NaT is the record  *)
(* None; a number n is Num(n).                                             *)
(*                                                                         *)
(* Tables.  A DataFrame is [cols, rows]: its set of column names and the   *)
(* sequence of its rows, each row a function from the column names.        *)
(***************************************************************************)
EXTENDS Integers, Sequences, FiniteSets, TLC

VARIABLES
  pc,              \* where main() stands: "idle", "process", "branch", and
                   \* the three ends "dashboard", "no_data", "error"
  open_po_file,    \* the workbook in the first st.file_uploader
  workbench_file,  \* the workbook in the second st.file_uploader
  open_po_df,      \* what pd.read_excel returned for open_po_file
  workbench_df,    \* what pd.read_excel returned for workbench_file
  processed_df,    \* what process_data returned (isNone: it returned None)
  insights,        \* what generate_insights returned (produced: it was called)
  messages         \* the st.success / st.error / st.warning / st.info calls

vars == <<pc, open_po_file, workbench_file, open_po_df, workbench_df,
          processed_df, insights, messages>>

(***************************************************************************)
(* Bounds of the model                                                     *)
(***************************************************************************)
MaxPORows == 2      \* rows of an uploaded Open PO workbook
MaxWBRows == 2      \* rows of an uploaded Workbench workbook
MaxRows == 7        \* rows of a reconciled table handed to generate_insights

(***************************************************************************)
(* Nullable numbers                                                        *)
(***************************************************************************)
Num(n) == [null |-> FALSE, v |-> n]
None == [null |-> TRUE, v |-> 0]

\* a - b and a * b on pandas columns: a missing operand gives a missing result
NSub(a, b) == IF a.null \/ b.null THEN None ELSE Num(a.v - b.v)
NMul(a, b) == IF a.null \/ b.null THEN None ELSE Num(a.v * b.v)

\* 1 Euro-denominated unit of n, in the model's 1/10000 units
Fixed(n) == n * 10000

(***************************************************************************)
(* CONVERSION_RATES and convert_to_euro                                    *)
(***************************************************************************)
CONVERSION_RATES ==
  ("USD" :> 9300) @@ ("GBP" :> 12000) @@ ("INR" :> 110) @@ ("JPY" :> 61)

convert_to_euro(price, currency) ==
  IF currency \in DOMAIN CONVERSION_RATES
  THEN Num(price * CONVERSION_RATES[currency])
  ELSE None

(***************************************************************************)
(* The columns main() asks pd.read_excel for                               *)
(***************************************************************************)
OPEN_PO_USECOLS ==
  {"     ORDER_TYPE", "LINE_TYPE", "ITEM", "VENDOR_NUM", "PO_NUM", "RELEASE_NUM",
   "LINE_NUM", "SHIPMENT_NUM", "AUTHORIZATION_STATUS", "PO_SHIPMENT_CREATION_DATE",
   "QTY_ELIGIBLE_TO_SHIP", "UNIT_PRICE", "CURRNECY"}

WORKBENCH_USECOLS ==
  {"PART_NUMBER", "DESCRIPTION", "VENDOR_NUM", "VENDOR_NAME", "DANDB",
   "STARS Category Code", "ASL_MPN", "UNIT_PRICE", "CURRENCY_CODE"}

(***************************************************************************)
(* Cells of the PO_SHIPMENT_CREATION_DATE column as read_excel delivers    *)
(* them: a date cell (a datetime), a blank cell (NaN) or a text cell.      *)
(***************************************************************************)
DateCell(y) == [kind |-> "datetime", year |-> y, text |-> ""]
BlankCell == [kind |-> "blank", year |-> 0, text |-> ""]
TextCell(t) == [kind |-> "text", year |-> 0, text |-> t]

\* the text cells pd.to_datetime can parse, with the year it reads
PARSEABLE_TEXT == ("2024-11-02" :> 2024)

\* pd.to_datetime raises on a cell it cannot parse (errors='raise')
to_datetime_raises(cell) ==
  cell.kind = "text" /\ cell.text \notin DOMAIN PARSEABLE_TEXT

\* pd.to_datetime(cell).year: NaT (None) for a blank cell
dt_year(cell) ==
  CASE cell.kind = "datetime" -> Num(cell.year)
    [] cell.kind = "blank" -> None
    [] OTHER -> Num(PARSEABLE_TEXT[cell.text])

(***************************************************************************)
(* The workbooks a user may upload                                         *)
(***************************************************************************)
OpenPORow(po_num, line_type, item, vendor_num, date, qty, unit_price, currency) ==
  ("     ORDER_TYPE" :> "STANDARD") @@ ("LINE_TYPE" :> line_type) @@
  ("ITEM" :> item) @@ ("VENDOR_NUM" :> vendor_num) @@ ("PO_NUM" :> po_num) @@
  ("RELEASE_NUM" :> 0) @@ ("LINE_NUM" :> 1) @@ ("SHIPMENT_NUM" :> 1) @@
  ("AUTHORIZATION_STATUS" :> "APPROVED") @@
  ("PO_SHIPMENT_CREATION_DATE" :> date) @@ ("QTY_ELIGIBLE_TO_SHIP" :> qty) @@
  ("UNIT_PRICE" :> unit_price) @@ ("CURRNECY" :> currency)

WorkbenchRow(part, vendor_num, vendor_name, category, unit_price, currency) ==
  ("PART_NUMBER" :> part) @@ ("DESCRIPTION" :> "PART") @@
  ("VENDOR_NUM" :> vendor_num) @@ ("VENDOR_NAME" :> vendor_name) @@
  ("DANDB" :> "DUNS") @@ ("STARS Category Code" :> category) @@
  ("ASL_MPN" :> "MPN") @@ ("UNIT_PRICE" :> unit_price) @@
  ("CURRENCY_CODE" :> currency)

OpenPOCatalog ==
  { OpenPORow(1001, "Inventory", "P1", "V1", DateCell(2023), 10, 50, "USD"),
    OpenPORow(1002, "Expense", "P1", "V1", DateCell(2023), 5, 60, "USD"),
    OpenPORow(1003, "Inventory", "P1", "V1", TextCell("2024-11-02"), 4, 30, "ZZZ"),
    OpenPORow(1004, "Inventory", "P2", "V2", TextCell("N/A"), 2, 100, "GBP"),
    OpenPORow(1005, "Inventory", "P1", "V2", BlankCell, 3, 20, "USD"),
    OpenPORow(1006, "Inventory", "P2", "V2", DateCell(2024), 7, 45, "JPY") }

WorkbenchCatalog ==
  { WorkbenchRow("P1", "V1", "ACME", "CAT1", 40, "USD"),
    WorkbenchRow("P1", "V2", "ACME", "CAT2", 25, "INR"),
    WorkbenchRow("P2", "V2", "SCHNEIDER ELECTRIC SE", "CAT1", 90, "EUR"),
    WorkbenchRow("P1", "V1", "BOLT", "CAT1", 35, "GBP") }

\* header rows that lack one of the columns main() asks for
OpenPOMissing == {{}, {"LINE_TYPE"}, {"QTY_ELIGIBLE_TO_SHIP"}}
WorkbenchMissing == {{}, {"VENDOR_NAME"}}

SeqsUpTo(S, n) == UNION {[1..k -> S] : k \in 0..n}

RestrictRow(r, cols) == [c \in (DOMAIN r) \cap cols |-> r[c]]

Workbook(cols, rows) ==
  [uploaded |-> TRUE, cols |-> cols,
   rows |-> [i \in DOMAIN rows |-> RestrictRow(rows[i], cols)]]

NoFile == [uploaded |-> FALSE, cols |-> {}, rows |-> <<>>]

OpenPOFiles ==
  {Workbook(OPEN_PO_USECOLS \ miss, rows) :
     miss \in OpenPOMissing, rows \in SeqsUpTo(OpenPOCatalog, MaxPORows)}

WorkbenchFiles ==
  {Workbook(WORKBENCH_USECOLS \ miss, rows) :
     miss \in WorkbenchMissing, rows \in SeqsUpTo(WorkbenchCatalog, MaxWBRows)}

(***************************************************************************)
(* pd.read_excel(file, usecols=...)                                        *)
(***************************************************************************)
\* the names of usecols the sheet's header lacks: read_excel raises
\* ValueError("Usecols do not match columns, columns expected but not
\* found: [...]") when there are any
MissingUsecolsUnchecked(file, usecols) == {}

MissingUsecols(file, usecols) == usecols \ file.cols

read_excel(file, usecols) ==
  [cols |-> file.cols \cap usecols,
   rows |-> [i \in DOMAIN file.rows |-> RestrictRow(file.rows[i], usecols)]]

NoFrame == [cols |-> {}, rows |-> <<>>]

(***************************************************************************)
(* What process_data hands back                                            *)
(***************************************************************************)
NoError == [exc |-> "", names |-> {}]
KeyError(c) == [exc |-> "KeyError", names |-> {c}]
ValueError(cs) == [exc |-> "ValueError", names |-> cs]
ParserError == [exc |-> "ParserError", names |-> {}]

\* return merged_df
Returned(df) ==
  [isNone |-> FALSE, cols |-> df.cols, rows |-> df.rows, error |-> NoError]

\* except Exception as e: st.error(...); return None
Raised(e) == [isNone |-> TRUE, cols |-> {}, rows |-> <<>>, error |-> e]

NotCalled == [isNone |-> TRUE, cols |-> {}, rows |-> <<>>, error |-> NoError]

(***************************************************************************)
(* The pandas operations process_data uses                                 *)
(***************************************************************************)
FilterNothing(df) == df

\* open_po_df[open_po_df['LINE_TYPE'] == 'Inventory']
FilterInventory(df) ==
  [cols |-> df.cols,
   rows |-> SelectSeq(df.rows, LAMBDA r : r["LINE_TYPE"] = "Inventory")]

\* pd.merge(left, right, left_on, right_on, how='inner'): one row per pair of
\* a left and a right row with equal keys, in the order of the left rows; a
\* key of the same name on both sides is one column, any other column the
\* two sides share gets the suffixes _x (left) and _y (right).
merge(left, right, left_on, right_on) ==
  LET n == Len(left.rows)
      m == Len(right.rows)
      cross == [t \in 1..(n * m) |-> <<((t - 1) \div m) + 1, ((t - 1) % m) + 1>>]
      Match(p) == \A k \in DOMAIN left_on :
                    left.rows[p[1]][left_on[k]] = right.rows[p[2]][right_on[k]]
      matched == SelectSeq(cross, Match)
      shared == {left_on[k] : k \in {j \in DOMAIN left_on : left_on[j] = right_on[j]}}
      overlap == (left.cols \cap right.cols) \ shared
      LCol(c) == IF c \in overlap THEN c \o "_x" ELSE c
      RCol(c) == IF c \in overlap THEN c \o "_y" ELSE c
      lcols == {LCol(c) : c \in left.cols}
      rcols == {RCol(c) : c \in right.cols \ shared}
      Row(p) == [d \in lcols \cup rcols |->
                   IF d \in lcols
                   THEN left.rows[p[1]][CHOOSE c \in left.cols : LCol(c) = d]
                   ELSE right.rows[p[2]][CHOOSE c \in right.cols \ shared : RCol(c) = d]]
  IN [cols |-> lcols \cup rcols,
      rows |-> [t \in DOMAIN matched |-> Row(matched[t])]]

LEFT_ON == <<"PART_NUMBER", "VENDOR_NUM">>
RIGHT_ON == <<"ITEM", "VENDOR_NUM">>

MergeFramesSwapped(workbench_df_, open_po_df_) ==
  merge(open_po_df_, workbench_df_, RIGHT_ON, LEFT_ON)

\* pd.merge(workbench_df, open_po_df, left_on=[...], right_on=[...], how='inner')
MergeFrames(workbench_df_, open_po_df_) ==
  merge(workbench_df_, open_po_df_, LEFT_ON, RIGHT_ON)

\* the key columns pd.merge does not find (it raises KeyError on the first)
MergeMissingKeys(workbench_df_, open_po_df_) ==
  SelectSeq(LEFT_ON, LAMBDA c : c \notin workbench_df_.cols)
    \o SelectSeq(RIGHT_ON, LAMBDA c : c \notin open_po_df_.cols)

\* a frame with every column name c replaced by names[c]
MapColumns(df, names) ==
  LET newcols == {names[c] : c \in df.cols}
  IN [cols |-> newcols,
      rows |-> [i \in DOMAIN df.rows |->
                  [d \in newcols |-> df.rows[i][CHOOSE c \in df.cols : names[c] = d]]]]

\* str.strip() of a column name (of the names that occur here only the
\* ORDER_TYPE header carries surrounding blanks)
StripName(c) == IF c = "     ORDER_TYPE" THEN "ORDER_TYPE" ELSE c

\* merged_df.drop(col, axis=1)
DropColumn(df, col) ==
  [cols |-> df.cols \ {col},
   rows |-> [i \in DOMAIN df.rows |-> RestrictRow(df.rows[i], df.cols \ {col})]]

\* merged_df.rename(columns={...})
RenameName(c) ==
  CASE c = "DANDB" -> "VENDOR_DUNS"
    [] c = "UNIT_PRICE_x" -> "Unit_Price_WB"
    [] c = "CURRENCY_CODE" -> "CURRENCY_CODE_WB"
    [] c = "UNIT_PRICE_y" -> "UNIT_PRICE_OPO"
    [] c = "CURRNECY" -> "CURRNECY_OPO"
    [] OTHER -> c

\* merged_df[name] = values (one value per row)
WithColumn(df, name, values) ==
  [cols |-> df.cols \cup {name},
   rows |-> [i \in DOMAIN df.rows |->
               [d \in df.cols \cup {name} |->
                  IF d = name THEN values[i] ELSE df.rows[i][d]]]]

\* the vendor names whose upper case contains 'SCHNEIDER' or 'WUXI'
IG_VENDOR_NAMES == {"SCHNEIDER ELECTRIC SE"}

ig_og(vendor_name) == IF vendor_name \in IG_VENDOR_NAMES THEN "IG" ELSE "OG"

\* descending order of a column with missing values last
Precedes(a, b) == (~a.null /\ b.null) \/ (~a.null /\ ~b.null /\ a.v > b.v)

\* df.sort_values(col, ascending=False): missing values last (na_position),
\* rows of equal value kept in their order
sort_values_desc(df, col) ==
  LET n == Len(df.rows)
      key(i) == df.rows[i][col]
      Before(j, i) == Precedes(key(j), key(i))
                        \/ (~Precedes(key(i), key(j)) /\ j < i)
      Pos(i) == 1 + Cardinality({j \in 1..n : j # i /\ Before(j, i)})
  IN [cols |-> df.cols,
      rows |-> [p \in 1..n |-> df.rows[CHOOSE i \in 1..n : Pos(i) = p]]]

PRICE_COLUMNS ==
  <<"Unit_Price_WB", "CURRENCY_CODE_WB", "UNIT_PRICE_OPO", "CURRNECY_OPO">>

\* merged_df.columns = merged_df.columns.str.strip()
strip_columns(df) == MapColumns(df, [c \in df.cols |-> StripName(c)])

\* merged_df.rename(columns={...})
rename_columns(df) == MapColumns(df, [c \in df.cols |-> RenameName(c)])

\* merged_df['IG/OG'] = merged_df['VENDOR_NAME'].apply(...)
with_ig_og(df) ==
  WithColumn(df, "IG/OG",
    [i \in DOMAIN df.rows |-> ig_og(df.rows[i]["VENDOR_NAME"])])

\* merged_df['PO Year'] = pd.to_datetime(...).dt.year
with_po_year(df) ==
  WithColumn(df, "PO Year",
    [i \in DOMAIN df.rows |-> dt_year(df.rows[i]["PO_SHIPMENT_CREATION_DATE"])])

\* merged_df['UNIT_PRICE_WB_EUR'] = merged_df.apply(convert_to_euro(...), axis=1)
with_wb_eur(df) ==
  WithColumn(df, "UNIT_PRICE_WB_EUR",
    [i \in DOMAIN df.rows |->
       convert_to_euro(df.rows[i]["Unit_Price_WB"], df.rows[i]["CURRENCY_CODE_WB"])])

\* merged_df['UNIT_PRICE_OPO_EUR'] = merged_df.apply(convert_to_euro(...), axis=1)
with_opo_eur(df) ==
  WithColumn(df, "UNIT_PRICE_OPO_EUR",
    [i \in DOMAIN df.rows |->
       convert_to_euro(df.rows[i]["UNIT_PRICE_OPO"], df.rows[i]["CURRNECY_OPO"])])

\* merged_df['Price_Delta'] = UNIT_PRICE_OPO_EUR - UNIT_PRICE_WB_EUR
with_price_delta(df) ==
  WithColumn(df, "Price_Delta",
    [i \in DOMAIN df.rows |->
       NSub(df.rows[i]["UNIT_PRICE_OPO_EUR"], df.rows[i]["UNIT_PRICE_WB_EUR"])])

\* merged_df['Impact in Euros'] = Price_Delta * QTY_ELIGIBLE_TO_SHIP
with_impact(df) ==
  WithColumn(df, "Impact in Euros",
    [i \in DOMAIN df.rows |->
       NMul(df.rows[i]["Price_Delta"], Num(df.rows[i]["QTY_ELIGIBLE_TO_SHIP"]))])

\* merged_df['Open PO Value'] = QTY_ELIGIBLE_TO_SHIP * UNIT_PRICE_OPO_EUR
with_open_po_value(df) ==
  WithColumn(df, "Open PO Value",
    [i \in DOMAIN df.rows |->
       NMul(Num(df.rows[i]["QTY_ELIGIBLE_TO_SHIP"]), df.rows[i]["UNIT_PRICE_OPO_EUR"])])

\* pd.to_datetime raises on some row of the frame
any_date_raises(df) ==
  \E i \in DOMAIN df.rows : to_datetime_raises(df.rows[i]["PO_SHIPMENT_CREATION_DATE"])

\* lines 231-246, the price columns and the quantity being there
price_metrics_sorted(df) ==
  sort_values_desc(
    with_open_po_value(with_impact(with_price_delta(with_opo_eur(with_wb_eur(
      with_po_year(df)))))),
    "Impact in Euros")

\* lines 209-220
clean_columns(df) == rename_columns(DropColumn(strip_columns(df), "ITEM"))

\* the first of the price columns the frame lacks, if any
missing_price_columns(df) == SelectSeq(PRICE_COLUMNS, LAMBDA c : c \notin df.cols)

(***************************************************************************)
(* process_data.  apply_empty_raises: DataFrame.apply(..., axis=1) on a     *)
(* frame without rows returns a DataFrame in some pandas releases (the     *)
(* assignment to one column then raises ValueError) and an empty Series in *)
(* others; the repository pins no release, so both are possible.           *)
(***************************************************************************)
after_merge(merged, apply_empty_raises) ==
  IF "VENDOR_NAME" \notin merged.cols THEN Raised(KeyError("VENDOR_NAME"))
  ELSE IF "PO_SHIPMENT_CREATION_DATE" \notin merged.cols
  THEN Raised(KeyError("PO_SHIPMENT_CREATION_DATE"))
  ELSE IF any_date_raises(merged) THEN Raised(ParserError)
  ELSE IF Len(merged.rows) = 0
            /\ (apply_empty_raises \/ missing_price_columns(merged) # <<>>)
  THEN Raised(ValueError({"UNIT_PRICE_WB_EUR"}))
  ELSE IF missing_price_columns(merged) # <<>>
  THEN Raised(KeyError(missing_price_columns(merged)[1]))
  ELSE IF "QTY_ELIGIBLE_TO_SHIP" \notin merged.cols
  THEN Raised(KeyError("QTY_ELIGIBLE_TO_SHIP"))
  ELSE Returned(price_metrics_sorted(with_ig_og(merged)))

process_data(open_po_df_, workbench_df_, apply_empty_raises) ==
  IF "LINE_TYPE" \notin open_po_df_.cols THEN Raised(KeyError("LINE_TYPE"))
  ELSE IF MergeMissingKeys(workbench_df_, open_po_df_) # <<>>
  THEN Raised(KeyError(MergeMissingKeys(workbench_df_, open_po_df_)[1]))
  ELSE after_merge(
         clean_columns(MergeFrames(workbench_df_, FilterInventory(open_po_df_))),
         apply_empty_raises)

(***************************************************************************)
(* generate_insights                                                       *)
(***************************************************************************)
\* Series.sum(): missing values are skipped (skipna)
RECURSIVE series_sum(_)
series_sum(s) ==
  IF s = <<>> THEN 0
  ELSE (IF Head(s).null THEN 0 ELSE Head(s).v) + series_sum(Tail(s))

\* df[col]
Column(df, col) == [i \in DOMAIN df.rows |-> df.rows[i][col]]

\* df[col].nunique()
nunique(df, col) == Cardinality({df.rows[i][col] : i \in DOMAIN df.rows})

\* the vendor names and category codes of the model, each list in the order
\* groupby sorts its keys
VENDOR_NAMES ==
  <<"ACME", "BOLT", "CROWN", "DELTA", "EATON", "FANUC", "GATES", "HILTI",
    "SCHNEIDER ELECTRIC SE">>
CATEGORIES == <<"CAT1", "CAT2", "CAT3", "CAT4", "CAT5", "CAT6", "CAT7", "CAT8",
    "CAT9">>
KEY_ORDER == VENDOR_NAMES \o CATEGORIES

\* df.groupby(by)[col].sum(): one entry per key that occurs, keys in order
groupby_sum(df, by, col) ==
  LET keys == SelectSeq(KEY_ORDER,
                LAMBDA k : \E i \in DOMAIN df.rows : df.rows[i][by] = k)
      Group(k) == [cols |-> df.cols,
                   rows |-> SelectSeq(df.rows, LAMBDA r : r[by] = k)]
  IN [g \in DOMAIN keys |->
        [key |-> keys[g], value |-> series_sum(Column(Group(keys[g]), col))]]

\* Series.sort_values(ascending=True), equal values kept in their order
series_sort_asc(s) ==
  LET n == Len(s)
      Before(j, i) == s[j].value < s[i].value \/ (s[j].value = s[i].value /\ j < i)
      Pos(i) == 1 + Cardinality({j \in 1..n : j # i /\ Before(j, i)})
  IN [p \in 1..n |-> s[CHOOSE i \in 1..n : Pos(i) = p]]

\* Series.sort_values(ascending=False), equal values kept in their order
series_sort_desc(s) ==
  LET n == Len(s)
      Before(j, i) == s[j].value > s[i].value \/ (s[j].value = s[i].value /\ j < i)
      Pos(i) == 1 + Cardinality({j \in 1..n : j # i /\ Before(j, i)})
  IN [p \in 1..n |-> s[CHOOSE i \in 1..n : Pos(i) = p]]

\* Series.head(k)
head(s, k) == SubSeq(s, 1, IF Len(s) < k THEN Len(s) ELSE k)

TOP_N == 5

top_impact_by_ascending(df, by) ==
  head(series_sort_asc(groupby_sum(df, by, "Impact in Euros")), TOP_N)

\* df.groupby(by)['Impact in Euros'].sum().sort_values(ascending=False).head(5)
top_impact_by(df, by) ==
  head(series_sort_desc(groupby_sum(df, by, "Impact in Euros")), TOP_N)

generate_insights(df) ==
  [produced |-> TRUE,
   total_impact |-> series_sum(Column(df, "Impact in Euros")),
   total_po_value |-> series_sum(Column(df, "Open PO Value")),
   total_parts |-> Len(df.rows),
   unique_vendors |-> nunique(df, "VENDOR_NAME"),
   impact_by_vendor |-> top_impact_by(df, "VENDOR_NAME"),
   impact_by_category |-> top_impact_by(df, "STARS Category Code")]

NoInsights ==
  [produced |-> FALSE, total_impact |-> 0, total_po_value |-> 0,
   total_parts |-> 0, unique_vendors |-> 0,
   impact_by_vendor |-> <<>>, impact_by_category |-> <<>>]

(***************************************************************************)
(* main()                                                                  *)
(***************************************************************************)
Message(level, text, error) == [level |-> level, text |-> text, error |-> error]

Init ==
  /\ pc = "idle"
  /\ open_po_file = NoFile
  /\ workbench_file = NoFile
  /\ open_po_df = NoFrame
  /\ workbench_df = NoFrame
  /\ processed_df = NotCalled
  /\ insights = NoInsights
  /\ messages = <<>>

\* the user puts a workbook into "Upload Open PO Report"
UploadOpenPO ==
  /\ pc = "idle"
  /\ ~open_po_file.uploaded
  /\ \E f \in OpenPOFiles : open_po_file' = f
  /\ UNCHANGED <<pc, workbench_file, open_po_df, workbench_df, processed_df,
                 insights, messages>>

\* the user puts a workbook into "Upload Workbench Report"
UploadWorkbench ==
  /\ pc = "idle"
  /\ ~workbench_file.uploaded
  /\ \E f \in WorkbenchFiles : workbench_file' = f
  /\ UNCHANGED <<pc, open_po_file, open_po_df, workbench_df, processed_df,
                 insights, messages>>

\* both files are there: the two pd.read_excel calls; a ValueError of either
\* is caught by main's except, which reports it and ends the run
ReadExcel ==
  /\ pc = "idle"
  /\ open_po_file.uploaded
  /\ workbench_file.uploaded
  /\ LET po_missing == MissingUsecols(open_po_file, OPEN_PO_USECOLS)
         wb_missing == MissingUsecols(workbench_file, WORKBENCH_USECOLS)
         Caught(e) == messages \o
                        <<Message("error", "Error", e),
                          Message("info", "Please ensure your files have the required columns and format.", NoError)>>
     IN IF po_missing # {}
        THEN /\ pc' = "error"
             /\ messages' = Caught(ValueError(po_missing))
             /\ UNCHANGED <<open_po_df, workbench_df>>
        ELSE IF wb_missing # {}
        THEN /\ pc' = "error"
             /\ messages' = Caught(ValueError(wb_missing))
             /\ open_po_df' = read_excel(open_po_file, OPEN_PO_USECOLS)
             /\ UNCHANGED workbench_df
        ELSE /\ pc' = "process"
             /\ messages' = Append(messages,
                              Message("success", "Files uploaded successfully!", NoError))
             /\ open_po_df' = read_excel(open_po_file, OPEN_PO_USECOLS)
             /\ workbench_df' = read_excel(workbench_file, WORKBENCH_USECOLS)
  /\ UNCHANGED <<open_po_file, workbench_file, processed_df, insights>>

\* processed_df = process_data(open_po_df, workbench_df)
ProcessData ==
  /\ pc = "process"
  /\ \E apply_empty_raises \in BOOLEAN :
       LET r == process_data(open_po_df, workbench_df, apply_empty_raises)
       IN /\ processed_df' = r
          /\ messages' = IF r.isNone
                         THEN Append(messages,
                                Message("error", "Error processing data", r.error))
                         ELSE messages
  /\ pc' = "branch"
  /\ UNCHANGED <<open_po_file, workbench_file, open_po_df, workbench_df, insights>>

HasDataNotNone(df) == ~df.isNone

\* processed_df is not None and not processed_df.empty
HasData(df) == ~df.isNone /\ Len(df.rows) > 0

\* the branch that calls generate_insights and renders metrics, charts, tables
RenderDashboard ==
  /\ pc = "branch"
  /\ HasData(processed_df)
  /\ insights' = generate_insights(processed_df)
  /\ pc' = "dashboard"
  /\ UNCHANGED <<open_po_file, workbench_file, open_po_df, workbench_df,
                 processed_df, messages>>

\* else: st.warning("No data matches the analysis criteria.")
NoMatchingData ==
  /\ pc = "branch"
  /\ ~HasData(processed_df)
  /\ messages' = Append(messages,
                   Message("warning", "No data matches the analysis criteria.", NoError))
  /\ pc' = "no_data"
  /\ UNCHANGED <<open_po_file, workbench_file, open_po_df, workbench_df,
                 processed_df, insights>>

Next ==
  \/ UploadOpenPO
  \/ UploadWorkbench
  \/ ReadExcel
  \/ ProcessData
  \/ RenderDashboard
  \/ NoMatchingData

Spec == Init /\ [][Next]_vars

(***************************************************************************)
(* generate_insights on its own: every reconciled table of up to MaxRows   *)
(* rows over the vendor names and categories above, in the order            *)
(* process_data leaves it (impact descending, missing impacts last).       *)
(***************************************************************************)
ImpactValues == {Num(930000), Num(-465000), None}

ReconciledRow(i, own_vendor, own_category, impact) ==
  ("PART_NUMBER" :> "P1") @@ ("VENDOR_NUM" :> "V1") @@
  ("VENDOR_NAME" :> IF own_vendor THEN VENDOR_NAMES[i] ELSE VENDOR_NAMES[1]) @@
  ("STARS Category Code" :> IF own_category THEN CATEGORIES[i] ELSE CATEGORIES[1]) @@
  ("Impact in Euros" :> impact) @@
  ("Open PO Value" :> IF impact.null THEN None ELSE Num(4650000))

RECONCILED_COLUMNS ==
  {"PART_NUMBER", "VENDOR_NUM", "VENDOR_NAME", "STARS Category Code",
   "Impact in Euros", "Open PO Value"}

ReconciledTable(n, impact, own_vendor, split) ==
  Returned([cols |-> RECONCILED_COLUMNS,
            rows |-> [i \in 1..n |->
                        ReconciledRow(i, own_vendor[i], i <= split, impact[i])]])

InitInsights ==
  /\ pc = "insights_input"
  /\ \E n \in 1..MaxRows :
       \E impact \in [1..n -> ImpactValues] :
         /\ \A i \in 1..(n - 1) : ~Precedes(impact[i + 1], impact[i])
         /\ \E own_vendor \in [1..n -> BOOLEAN] :
              \E split \in 0..n :
                processed_df = ReconciledTable(n, impact, own_vendor, split)
  /\ open_po_file = NoFile
  /\ workbench_file = NoFile
  /\ open_po_df = NoFrame
  /\ workbench_df = NoFrame
  /\ insights = NoInsights
  /\ messages = <<>>

\* insights = generate_insights(processed_df)
Summarize ==
  /\ pc = "insights_input"
  /\ insights' = generate_insights(processed_df)
  /\ pc' = "insights_done"
  /\ UNCHANGED <<open_po_file, workbench_file, open_po_df, workbench_df,
                 processed_df, messages>>

NextInsights == Summarize

SpecInsights == InitInsights /\ [][NextInsights]_vars

(***************************************************************************)
(* What the properties below talk about                                    *)
(***************************************************************************)
\* process_data has run in this execution of main()
Processed == pc \in {"branch", "dashboard", "no_data"}

\* process_data returned a table
HasTable == Processed /\ ~processed_df.isNone

Table == processed_df.rows

\* the pairs (Workbench row i, Open-PO row j) of the two frames read that
\* agree on part and vendor, the Open-PO row being an Inventory line
KeysAgree(w, p) == p["ITEM"] = w["PART_NUMBER"] /\ p["VENDOR_NUM"] = w["VENDOR_NUM"]

MatchedPairs ==
  {ij \in (DOMAIN workbench_df.rows) \X (DOMAIN open_po_df.rows) :
     /\ KeysAgree(workbench_df.rows[ij[1]], open_po_df.rows[ij[2]])
     /\ open_po_df.rows[ij[2]]["LINE_TYPE"] = "Inventory"}

\* the Workbench record a reconciled row carries
WorkbenchPart(r) ==
  [c \in WORKBENCH_USECOLS |->
     CASE c = "DANDB" -> r["VENDOR_DUNS"]
       [] c = "UNIT_PRICE" -> r["Unit_Price_WB"]
       [] c = "CURRENCY_CODE" -> r["CURRENCY_CODE_WB"]
       [] OTHER -> r[c]]

\* the Open-PO record a reconciled row carries (its ITEM column is dropped:
\* it is the row's PART_NUMBER)
OpenPOPart(r) ==
  [c \in OPEN_PO_USECOLS |->
     CASE c = "     ORDER_TYPE" -> r["ORDER_TYPE"]
       [] c = "ITEM" -> r["PART_NUMBER"]
       [] c = "UNIT_PRICE" -> r["UNIT_PRICE_OPO"]
       [] c = "CURRNECY" -> r["CURRNECY_OPO"]
       [] OTHER -> r[c]]

\* the reconciled row r is the pair (Workbench row i, Open-PO row j)
IsPair(r, i, j) ==
  WorkbenchPart(r) = workbench_df.rows[i] /\ OpenPOPart(r) = open_po_df.rows[j]

\* the sum of f over the finite set S
RECURSIVE SumOver(_, _)
SumOver(S, f) ==
  IF S = {} THEN 0
  ELSE LET x == CHOOSE y \in S : TRUE IN f[x] + SumOver(S \ {x}, f)

\* the converter as the specification words it: rate for a known code,
\* the amount itself for any other
ReferenceCurrency(price, currency) ==
  IF currency \in {"USD", "GBP", "INR", "JPY"}
  THEN Num(price * CONVERSION_RATES[currency])
  ELSE Num(Fixed(price))

(***************************************************************************)
(* C1: convert_to_euro is total: every conversion process_data makes gives *)
(* a number, amount * rate for a code of the rate table and the amount      *)
(* itself for any other code.                                              *)
(* Violated: a code outside the table gives None.                          *)
(***************************************************************************)
C1_ConvertToEuroTotal ==
  HasTable =>
    \A i \in DOMAIN Table :
      /\ Table[i]["UNIT_PRICE_WB_EUR"] =
           ReferenceCurrency(Table[i]["Unit_Price_WB"], Table[i]["CURRENCY_CODE_WB"])
      /\ Table[i]["UNIT_PRICE_OPO_EUR"] =
           ReferenceCurrency(Table[i]["UNIT_PRICE_OPO"], Table[i]["CURRNECY_OPO"])

(***************************************************************************)
(* C2: join correctness.  In every table process_data returns, the rows    *)
(* are exactly the pairs (p, w) with p.ITEM = w.PART_NUMBER, p.VENDOR_NUM  *)
(* = w.VENDOR_NUM and p.LINE_TYPE = "Inventory", each pair once: no row    *)
(* comes from another line type, no unmatched row of either side appears.  *)
(***************************************************************************)
C2_JoinCorrect ==
  HasTable =>
    /\ Len(Table) = Cardinality(MatchedPairs)
    /\ \A i \in DOMAIN workbench_df.rows, j \in DOMAIN open_po_df.rows :
         Cardinality({t \in DOMAIN Table : IsPair(Table[t], i, j)}) =
           IF <<i, j>> \in MatchedPairs
           THEN Cardinality({ij \in MatchedPairs :
                               /\ workbench_df.rows[ij[1]] = workbench_df.rows[i]
                               /\ open_po_df.rows[ij[2]] = open_po_df.rows[j]})
           ELSE 0
    /\ \A t \in DOMAIN Table : Table[t]["LINE_TYPE"] = "Inventory"

\* a returned table with a row, beside an Open-PO line of another type whose
\* keys match and a Workbench row nothing matches
C2_Witness ==
  /\ HasTable
  /\ Len(Table) > 0
  /\ \E j \in DOMAIN open_po_df.rows :
       /\ open_po_df.rows[j]["LINE_TYPE"] # "Inventory"
       /\ \E i \in DOMAIN workbench_df.rows :
            KeysAgree(workbench_df.rows[i], open_po_df.rows[j])
  /\ \E i \in DOMAIN workbench_df.rows :
       \A j \in DOMAIN open_po_df.rows : <<i, j>> \notin MatchedPairs

(***************************************************************************)
(* C3: in every table process_data returns, every row's impact and open-PO *)
(* value is a number, and a price in a currency outside the rate table is  *)
(* carried over unconverted.                                               *)
(* Violated: such a row has None in both (see C1).                         *)
(***************************************************************************)
C3_ImpactAndValueNumeric ==
  HasTable =>
    \A i \in DOMAIN Table :
      /\ ~Table[i]["Impact in Euros"].null
      /\ ~Table[i]["Open PO Value"].null
      /\ Table[i]["CURRENCY_CODE_WB"] \notin DOMAIN CONVERSION_RATES =>
           Table[i]["UNIT_PRICE_WB_EUR"] = Num(Fixed(Table[i]["Unit_Price_WB"]))
      /\ Table[i]["CURRNECY_OPO"] \notin DOMAIN CONVERSION_RATES =>
           Table[i]["UNIT_PRICE_OPO_EUR"] = Num(Fixed(Table[i]["UNIT_PRICE_OPO"]))

(***************************************************************************)
(* C4: sort postcondition.  In every table process_data returns,           *)
(* impact[i] >= impact[i+1] for every two adjacent rows.                   *)
(* Violated: a row in an unrecognized currency has no impact to compare.   *)
(***************************************************************************)
AtLeast(a, b) == ~a.null /\ ~b.null /\ a.v >= b.v

C4_ImpactNonIncreasing ==
  HasTable =>
    \A i \in 1..(Len(Table) - 1) :
      AtLeast(Table[i]["Impact in Euros"], Table[i + 1]["Impact in Euros"])

\* what the sort does give: the rows with an impact in non-increasing order,
\* the rows without one after them
SortedWithMissingLast ==
  HasTable =>
    \A i \in 1..(Len(Table) - 1) :
      LET a == Table[i]["Impact in Euros"]
          b == Table[i + 1]["Impact in Euros"]
      IN b.null \/ AtLeast(a, b)

(***************************************************************************)
(* C5: derived-metric identities.  Every reconciled row is a matched pair  *)
(* (w, p) whose Workbench-side reference price is the conversion of w's    *)
(* own price and currency and whose PO-side reference price that of p's;   *)
(* price_delta = PO side - Workbench side, impact = price_delta * quantity,*)
(* open_po_value = quantity * PO side (a missing price gives a missing     *)
(* result).  PO (10, 50, USD) against Workbench (40, USD): 9.3, 93, 465.   *)
(***************************************************************************)
C5_DerivedMetrics ==
  HasTable =>
    \A t \in DOMAIN Table :
      LET r == Table[t]
          qty == Num(r["QTY_ELIGIBLE_TO_SHIP"])
      IN /\ \E ij \in MatchedPairs :
              LET w == workbench_df.rows[ij[1]]
                  p == open_po_df.rows[ij[2]]
              IN /\ IsPair(r, ij[1], ij[2])
                 /\ r["UNIT_PRICE_WB_EUR"] =
                      convert_to_euro(w["UNIT_PRICE"], w["CURRENCY_CODE"])
                 /\ r["UNIT_PRICE_OPO_EUR"] =
                      convert_to_euro(p["UNIT_PRICE"], p["CURRNECY"])
                 /\ qty = Num(p["QTY_ELIGIBLE_TO_SHIP"])
         /\ r["Price_Delta"] = NSub(r["UNIT_PRICE_OPO_EUR"], r["UNIT_PRICE_WB_EUR"])
         /\ r["Impact in Euros"] = NMul(r["Price_Delta"], qty)
         /\ r["Open PO Value"] = NMul(qty, r["UNIT_PRICE_OPO_EUR"])
         /\ ( /\ r["QTY_ELIGIBLE_TO_SHIP"] = 10
              /\ r["UNIT_PRICE_OPO"] = 50 /\ r["CURRNECY_OPO"] = "USD"
              /\ r["Unit_Price_WB"] = 40 /\ r["CURRENCY_CODE_WB"] = "USD" )
            => /\ r["Price_Delta"] = Num(93000)
               /\ r["Impact in Euros"] = Num(930000)
               /\ r["Open PO Value"] = Num(4650000)

\* the example's row beside a row of another pair with other prices
C5_Witness ==
  /\ HasTable
  /\ \E t \in DOMAIN Table :
       /\ Table[t]["Impact in Euros"] = Num(930000)
       /\ Table[t]["Open PO Value"] = Num(4650000)
  /\ \E t \in DOMAIN Table :
       /\ ~Table[t]["Impact in Euros"].null
       /\ Table[t]["Unit_Price_WB"] # 40
       /\ Table[t]["CURRENCY_CODE_WB"] # Table[t]["CURRNECY_OPO"]

(***************************************************************************)
(* C6: a required attribute missing from either uploaded table ends the    *)
(* run in the error outcome: an error naming the missing field is shown,   *)
(* no reconciled table and no insight summary are produced, and the "no    *)
(* data matches" outcome is not taken.                                     *)
(***************************************************************************)
MissingAttributes ==
  (OPEN_PO_USECOLS \ open_po_file.cols) \cup (WORKBENCH_USECOLS \ workbench_file.cols)

BothUploaded == open_po_file.uploaded /\ workbench_file.uploaded

C6_MissingAttributeIsError ==
  (BothUploaded /\ pc # "idle" /\ MissingAttributes # {}) =>
    /\ pc = "error"
    /\ processed_df = NotCalled
    /\ ~insights.produced
    /\ \E k \in DOMAIN messages :
         /\ messages[k].level = "error"
         /\ messages[k].error.names # {}
         /\ messages[k].error.names \subseteq MissingAttributes
    /\ \A k \in DOMAIN messages : messages[k].level # "warning"

\* the run ended in the error outcome for an Open PO table without LINE_TYPE
C6_Witness ==
  /\ pc = "error"
  /\ "LINE_TYPE" \notin open_po_file.cols
  /\ Len(open_po_file.rows) > 0
  /\ \E k \in DOMAIN messages : messages[k].error.names = {"LINE_TYPE"}

(***************************************************************************)
(* C7: a shipment-creation date that cannot be parsed is absorbed: the     *)
(* table process_data returns still holds that matched row, without a PO   *)
(* year, and every other matched row with its metrics.                     *)
(* Violated: pd.to_datetime raises and process_data returns None.          *)
(***************************************************************************)
Unparseable(cell) == cell.kind = "text" /\ cell.text \notin {"2024-11-02"}

C7_BadDateRowRetained ==
  (Processed /\ \E ij \in MatchedPairs :
                  Unparseable(open_po_df.rows[ij[2]]["PO_SHIPMENT_CREATION_DATE"])) =>
    /\ ~processed_df.isNone
    /\ Len(Table) = Cardinality(MatchedPairs)
    /\ \A t \in DOMAIN Table :
         Unparseable(Table[t]["PO_SHIPMENT_CREATION_DATE"]) => Table[t]["PO Year"].null

\* what does hold: a blank date leaves the row in the table without a year
BlankDateRowRetained ==
  HasTable =>
    \A t \in DOMAIN Table :
      Table[t]["PO_SHIPMENT_CREATION_DATE"].kind = "blank" => Table[t]["PO Year"].null

(***************************************************************************)
(* C8: whenever the reconciliation gives no rows (process_data returned an *)
(* empty table or none; in particular when no Inventory line matches a     *)
(* Workbench row) main() takes the "no data matches" branch and            *)
(* generate_insights is not called; whenever it gives rows, the summary is *)
(* produced.                                                               *)
(***************************************************************************)
NoRows == processed_df.isNone \/ Len(processed_df.rows) = 0

C8_EmptyJoinSignalled ==
  /\ (pc \in {"dashboard", "no_data"}) =>
       /\ NoRows =>
            /\ pc = "no_data"
            /\ ~insights.produced
            /\ \E k \in DOMAIN messages : messages[k].level = "warning"
       /\ ~NoRows => (pc = "dashboard" /\ insights.produced)
       /\ MatchedPairs = {} => pc = "no_data"
  /\ (pc \in {"idle", "process", "branch", "error"}) => ~insights.produced

\* process_data returned a table without rows for Open-PO lines none of
\* which is an Inventory line, and main() took the "no data matches" branch
C8_Witness ==
  /\ pc = "no_data"
  /\ ~processed_df.isNone
  /\ Len(processed_df.rows) = 0
  /\ Len(open_po_df.rows) > 0
  /\ Len(workbench_df.rows) > 0
  /\ \A j \in DOMAIN open_po_df.rows : open_po_df.rows[j]["LINE_TYPE"] # "Inventory"
  /\ ~insights.produced

(***************************************************************************)
(* C9: total_parts is the number of distinct part numbers of the table and *)
(* unique_vendors the number of distinct vendor identifiers (VENDOR_NUM).  *)
(* Violated: total_parts counts rows, unique_vendors counts vendor names.  *)
(***************************************************************************)
C9_DistinctCounts ==
  pc = "dashboard" =>
    /\ insights.total_parts =
         Cardinality({Table[t]["PART_NUMBER"] : t \in DOMAIN Table})
    /\ insights.unique_vendors =
         Cardinality({Table[t]["VENDOR_NUM"] : t \in DOMAIN Table})

(***************************************************************************)
(* C10: impact_by_vendor (impact_by_category) has min(5, number of         *)
(* distinct vendor names (category codes)) entries, one per group; each    *)
(* entry's value is the sum of the impacts of the group's rows; the        *)
(* entries are in non-increasing order of that sum; no group left out has  *)
(* a larger sum than a group included; total_impact is the sum of the      *)
(* impacts of all rows, which is the sum over all groups.  (A row without  *)
(* an impact adds nothing to a sum.)                                       *)
(***************************************************************************)
ImpactOf(t) ==
  IF Table[t]["Impact in Euros"].null THEN 0 ELSE Table[t]["Impact in Euros"].v

ImpactSum(T) == SumOver(T, [t \in DOMAIN Table |-> ImpactOf(t)])

TopGroupsCorrect(top, by) ==
  LET keys == {Table[t][by] : t \in DOMAIN Table}
      GroupSum(k) == ImpactSum({t \in DOMAIN Table : Table[t][by] = k})
      included == {top[e].key : e \in DOMAIN top}
  IN /\ Len(top) = (IF Cardinality(keys) < 5 THEN Cardinality(keys) ELSE 5)
     /\ Cardinality(included) = Len(top)
     /\ included \subseteq keys
     /\ \A e \in DOMAIN top : top[e].value = GroupSum(top[e].key)
     /\ \A e \in 1..(Len(top) - 1) : top[e].value >= top[e + 1].value
     /\ \A k \in keys \ included : \A e \in DOMAIN top : GroupSum(k) <= top[e].value
     /\ insights.total_impact = SumOver(keys, [k \in keys |-> GroupSum(k)])

C10_TopGroupsAndTotals ==
  pc = "insights_done" =>
    /\ TopGroupsCorrect(insights.impact_by_vendor, "VENDOR_NAME")
    /\ TopGroupsCorrect(insights.impact_by_category, "STARS Category Code")
    /\ insights.total_impact = ImpactSum(DOMAIN Table)

\* six vendors of which five are listed, the one left out with a smaller sum
\* than the last one listed, and a vendor with rows that are not adjacent
C10_Witness ==
  /\ pc = "insights_done"
  /\ Cardinality({Table[t]["VENDOR_NAME"] : t \in DOMAIN Table}) > 5
  /\ Len(insights.impact_by_vendor) = 5
  /\ insights.impact_by_vendor[1].value > insights.impact_by_vendor[5].value
  /\ \E t \in DOMAIN Table :
       /\ Table[t]["VENDOR_NAME"] \notin
            {insights.impact_by_vendor[e].key : e \in 1..5}
       /\ ImpactSum({u \in DOMAIN Table :
                       Table[u]["VENDOR_NAME"] = Table[t]["VENDOR_NAME"]})
            < insights.impact_by_vendor[5].value
  /\ \E t \in DOMAIN Table, u \in DOMAIN Table :
       /\ u > t + 1
       /\ Table[t]["VENDOR_NAME"] = Table[u]["VENDOR_NAME"]
       /\ Table[t + 1]["VENDOR_NAME"] # Table[t]["VENDOR_NAME"]

====
